---- MODULE Spec2Model ----
(***************************************************************************)
(* Model of the streaming extraction-and-projection engine of AI-studio:   *)
(*   src/utils/fileParser.ts        parseFilesFromResponse                 *)
(*   src/services/geminiService.ts  streamGeminiResponse                   *)
(*   src/App.tsx                    handleRun, handleStop, clearHistory,   *)
(*                                  handleFileUpdate/Create/Delete         *)
(*                                                                         *)
(* Text is a sequence of lexemes.  A lexeme is one character, one complete *)
(* opening tag  <file path="p">  (what the first half of fileRegex matches *)
(* as a unit) or one closing tag  </file>.  A path is a sequence of        *)
(* one-character strings.                                                  *)
(***************************************************************************)
EXTENDS Integers, Sequences, FiniteSets, TLC

(* ------------------------------ bounds --------------------------------- *)

\* what one behaviour may spend: a call of handleRun, clearHistory or a file
\* handler counts for one; a chunk counts one for its text, one for grounding
\* metadata and one for usage metadata, and for one when it is empty
MaxSpend == 4
\* length of the buffers the extractor is applied to in ParseSpec
MaxBuf == 5
\* number of files of the stores buildFileTree is applied to in TreeSpec
MaxTreeFiles == 3
\* length of the contents Markdown is applied to in MarkdownSpec
MaxContent == 5
\* length of the texts ContentParser is applied to in ProseSpec
MaxProse == 5
\* length of the lines parseInline is applied to in InlineSpec
MaxLine == 5
\* length of the message texts of MessageSpec
MaxMessage == 5
\* length of what precedes the last name of a path in LanguageSpec
MaxPrefix == 3
\* what one behaviour of TurnsSpec may spend, and the turns it may start
MaxTurnSpend == 7
MaxTurns == 3

(* ------------------------------ text ----------------------------------- *)

PathA == <<"a", ".", "T", "S">>
PathB == <<"d", "/", "b">>
Paths == {PathA, PathB}

Ch(c) == [k |-> "ch", v |-> <<c>>]
OpenTag(p) == [k |-> "open", v |-> p]
CloseTag == [k |-> "close", v |-> <<>>]
NL == Ch("\n")

Lexemes == {OpenTag(p) : p \in Paths} \cup {CloseTag, Ch("x"), NL}


\* String.prototype.substring(n)
Drop(s, n) == SubSeq(s, n + 1, Len(s))

(* ----------------------- src/utils/fileParser.ts ----------------------- *)

LangText == <<"t", "e", "x", "t">>
LangJavascript == <<"j", "a", "v", "a", "s", "c", "r", "i", "p", "t">>
LangHtml == <<"h", "t", "m", "l">>
LangCss == <<"c", "s", "s">>
LangJson == <<"j", "s", "o", "n">>
LangPython == <<"p", "y", "t", "h", "o", "n">>

\* String.prototype.toLowerCase on the characters paths are made of
LowerChar(c) ==
    CASE c = "T" -> "t"
      [] c = "S" -> "s"
      [] c = "J" -> "j"
      [] c = "P" -> "p"
      [] c = "Y" -> "y"
      [] OTHER -> c

toLowerCase(s) == [i \in 1..Len(s) |-> LowerChar(s[i])]

\* s.split(sep).pop(): what follows the last sep, all of s when it has none
SplitPop(s, sep) ==
    LET at == {i \in 1..Len(s) : s[i] = sep}
    IN  IF at = {} THEN s
        ELSE Drop(s, CHOOSE i \in at : \A j \in at : j <= i)

\* fileParser.ts lines 22-28
languageOf(path) ==
    LET popped == toLowerCase(SplitPop(path, "."))
        ext == IF popped = <<>> THEN LangText ELSE popped
    IN  IF ext \in {<<"j", "s">>, <<"j", "s", "x">>, <<"t", "s">>, <<"t", "s", "x">>}
          THEN LangJavascript
        ELSE IF ext = LangHtml THEN LangHtml
        ELSE IF ext = LangCss THEN LangCss
        ELSE IF ext = LangJson THEN LangJson
        ELSE IF ext = <<"p", "y">> THEN LangPython
        ELSE LangText

\* fileParser.ts line 19
StripLeadingNewline(content) ==
    IF Len(content) > 0 /\ content[1] = NL THEN Drop(content, 1) ELSE content

\* fileRegexExec with a greedy group ([\s\S]* for [\s\S]*?): the match runs to
\* the last closing tag
fileRegexExecGreedy(text, from) ==
    LET starts == {i \in from..Len(text) :
                     /\ text[i].k = "open"
                     /\ \E j \in (i + 1)..Len(text) : text[j].k = "close"}
    IN  IF starts = {} THEN [found |-> FALSE]
        ELSE LET i == CHOOSE a \in starts : \A b \in starts : a <= b
                 j == CHOOSE a \in (i + 1)..Len(text) :
                        /\ text[a].k = "close"
                        /\ \A b \in (a + 1)..Len(text) : text[b].k # "close"
             IN  [found |-> TRUE, index |-> i, path |-> text[i].v,
                  group2 |-> SubSeq(text, i + 1, j - 1), lastIndex |-> j + 1]

\* fileRegexExec with `|$` after the closing tag: a declaration without its
\* closing tag runs to the end of the text
fileRegexExecToEnd(text, from) ==
    LET starts == {i \in from..Len(text) : text[i].k = "open"}
    IN  IF starts = {} THEN [found |-> FALSE]
        ELSE LET i == CHOOSE a \in starts : \A b \in starts : a <= b
                 closes == {a \in (i + 1)..Len(text) : text[a].k = "close"}
                 j == IF closes = {} THEN Len(text) + 1
                      ELSE CHOOSE a \in closes : \A b \in closes : a <= b
             IN  [found |-> TRUE, index |-> i, path |-> text[i].v,
                  group2 |-> SubSeq(text, i + 1, j - 1),
                  lastIndex |-> IF closes = {} THEN Len(text) + 1 ELSE j + 1]

\* One fileRegex.exec(text) with the regex's lastIndex at `from` (1-based):
\* the leftmost opening tag at or after `from` that some later closing tag
\* follows, with the lazy group [\s\S]*? ending at the first such closing tag.
fileRegexExec(text, from) ==
    LET starts == {i \in from..Len(text) :
                     /\ text[i].k = "open"
                     /\ \E j \in (i + 1)..Len(text) : text[j].k = "close"}
    IN  IF starts = {} THEN [found |-> FALSE]
        ELSE LET i == CHOOSE a \in starts : \A b \in starts : a <= b
                 j == CHOOSE a \in (i + 1)..Len(text) :
                        /\ text[a].k = "close"
                        /\ \A b \in (i + 1)..(a - 1) : text[b].k # "close"
             IN  [found |-> TRUE, index |-> i, path |-> text[i].v,
                  group2 |-> SubSeq(text, i + 1, j - 1), lastIndex |-> j + 1]

\* fileParser.ts lines 15-34: the ProjectFile pushed for one match
ProjectFileOf(m) ==
    [path |-> m.path,
     content |-> StripLeadingNewline(m.group2),
     language |-> languageOf(m.path)]

RECURSIVE parseLoop(_, _, _)
parseLoop(text, from, out) ==
    LET m == fileRegexExec(text, from)
    IN  IF ~m.found THEN out
        ELSE parseLoop(text, m.lastIndex, Append(out, ProjectFileOf(m)))

parseFilesFromResponse(text) == parseLoop(text, 1, <<>>)

(* ------------------------------ state ---------------------------------- *)

VARIABLES
    messages,            \* App.tsx:27  ChatMessage[]
    files,               \* App.tsx:39  ProjectFile[]
    nodes,               \* App.tsx:42  GraphNode[]
    edges,               \* App.tsx:43  GraphEdge[]
    isGenerating,        \* App.tsx:30
    abortControllerRef,  \* App.tsx:59  0 is null, r is the controller run r made
    runs,                \* one record per handleRun call: its locals and its stream
    now,                 \* Date.now()
    spent,               \* what the behaviour has spent of MaxSpend
    lastUpdate,          \* the onUpdate call nothing has followed yet: its run (0
                         \* when there is none), its groundingMetadata, and whether
                         \* it repeated the text and groundingMetadata of the call
                         \* before it
    buffer,              \* the text given to parseFilesFromResponse on its own
    parsed,              \* what it returned
    panelFiles,          \* part_001:249  the files prop of ProjectPanel on its own
    fileTree,            \* part_001:255  buildFileTree(files)
    content,             \* Markdown.tsx:20  the content prop of Markdown on its own
    parts,               \* Markdown.tsx:28  the parts it renders
    prose,               \* Markdown.tsx:58  the content prop of ContentParser on its own
    blocks,              \* Markdown.tsx:60  the parts it renders
    line,                \* Markdown.tsx:211  the text given to parseInline on its own
    spans                \* Markdown.tsx:213  what it returned

vars == <<messages, files, nodes, edges, isGenerating, abortControllerRef,
          runs, now, spent, lastUpdate, buffer, parsed, panelFiles, fileTree,
          content, parts, prose, blocks, line, spans>>

appVars == <<messages, files, nodes, edges, isGenerating, abortControllerRef,
             runs, now, spent, lastUpdate>>

\* the state of the functions applied on their own
parserVars == <<buffer, parsed>>
treeVars == <<panelFiles, fileTree>>
markdownVars == <<content, parts>>
proseVars == <<prose, blocks>>
inlineVars == <<line, spans>>
aloneVars == <<parserVars, treeVars, markdownVars, proseVars, inlineVars>>

NoUpdate == [r |-> 0, g |-> FALSE, again |-> FALSE]

Prompt == <<Ch("q")>>
Typed == <<Ch("u")>>
GroundingJson == <<Ch("g")>>

RoleUser == "user"
RoleModel == "model"

\* ids built by template strings, kept as their parts
UserNodeId(t) == [kind |-> "user", t |-> t, p |-> <<>>]
ModelNodeId(t) == [kind |-> "model", t |-> t, p |-> <<>>]
ToolNodeId(t) == [kind |-> "tool", t |-> t, p |-> <<>>]
FileNodeId(modelNodeId, path) == [kind |-> "file", t |-> modelNodeId.t, p |-> path]
EdgeId(src, tgt) == <<src, tgt>>

\* Math.max over a non-empty set of numbers
RECURSIVE MaxOf(_)
MaxOf(S) ==
    LET x == CHOOSE a \in S : TRUE
    IN  IF S = {x} THEN x
        ELSE LET m == MaxOf(S \ {x}) IN IF x > m THEN x ELSE m

\* the state after construction, the behaviour having `budget` to spend
Constructed(budget) ==
    /\ messages = <<>>
    /\ files = <<>>
    /\ nodes = <<>>
    /\ edges = <<>>
    /\ isGenerating = FALSE
    /\ abortControllerRef = 0
    /\ runs = <<>>
    /\ now = 0
    /\ spent = MaxSpend - budget
    /\ lastUpdate = NoUpdate
    /\ buffer = <<>>
    /\ parsed = <<>>
    /\ panelFiles = <<>>
    /\ fileTree = <<>>
    /\ content = <<>>
    /\ parts = <<>>
    /\ prose = <<>>
    /\ blocks = <<>>
    /\ line = <<>>
    /\ spans = <<>>

Init == Constructed(MaxSpend)

(* ----------------------- App.tsx: file handlers ------------------------ *)

\* FileUpdated taking the entry out and putting the edited one at the end
FileUpdatedMovingToEnd(prev, path, newContent) ==
    SelectSeq(prev, LAMBDA f : f.path # path)
    \o [i \in 1..Len(SelectSeq(prev, LAMBDA f : f.path = path)) |->
          [SelectSeq(prev, LAMBDA f : f.path = path)[i] EXCEPT !.content = newContent]]

\* App.tsx:227-229
FileUpdated(prev, path, newContent) ==
    [i \in 1..Len(prev) |->
        IF prev[i].path = path THEN [prev[i] EXCEPT !.content = newContent]
        ELSE prev[i]]

\* part_001:433 calls it with the path of a file of the store
handleFileUpdate(path, newContent) ==
    /\ spent < MaxSpend
    /\ \E i \in 1..Len(files) : files[i].path = path
    /\ files' = FileUpdated(files, path, newContent)
    /\ spent' = spent + 1
    /\ lastUpdate' = NoUpdate
    /\ UNCHANGED <<messages, nodes, edges, isGenerating, abortControllerRef, runs,
                   now, aloneVars>>

\* App.tsx:233-234
CreatedLanguage(path) ==
    LET popped == SplitPop(path, ".")
        ext == IF popped = <<>> THEN LangText ELSE popped
    IN  IF ext \in {<<"t", "s">>, <<"t", "s", "x">>}
          THEN <<"t", "y", "p", "e", "s", "c", "r", "i", "p", "t">>
        ELSE ext

\* App.tsx:234
FileCreated(prev, path) ==
    Append(prev, [path |-> path, content |-> <<>>, language |-> CreatedLanguage(path)])

\* App.tsx:231-236; with the path of a file of the store the call changes nothing
handleFileCreate(path) ==
    /\ spent < MaxSpend
    /\ ~\E i \in 1..Len(files) : files[i].path = path
    /\ files' = FileCreated(files, path)
    /\ spent' = spent + 1
    /\ lastUpdate' = NoUpdate
    /\ UNCHANGED <<messages, nodes, edges, isGenerating, abortControllerRef, runs,
                   now, aloneVars>>

\* App.tsx:238-240
FileDeleted(prev, path) == SelectSeq(prev, LAMBDA f : f.path # path)

\* part_001:418 calls it with the path of a file of the store
handleFileDelete(path) ==
    /\ spent < MaxSpend
    /\ \E i \in 1..Len(files) : files[i].path = path
    /\ files' = FileDeleted(files, path)
    /\ spent' = spent + 1
    /\ lastUpdate' = NoUpdate
    /\ UNCHANGED <<messages, nodes, edges, isGenerating, abortControllerRef, runs,
                   now, aloneVars>>

(* ------------------- App.tsx: handleStop, clearHistory ----------------- *)

\* AbortController.abort() on the controller of run r
Aborted(rs, r) == [rs EXCEPT ![r].aborted = TRUE]

\* App.tsx:242-248
handleStop ==
    /\ abortControllerRef # 0
    /\ runs' = Aborted(runs, abortControllerRef)
    /\ abortControllerRef' = 0
    /\ isGenerating' = FALSE
    /\ lastUpdate' = NoUpdate
    /\ UNCHANGED <<messages, files, nodes, edges, now, spent, aloneVars>>

\* App.tsx:250-258, the user confirming the dialog
clearHistory ==
    /\ spent < MaxSpend
    /\ messages' = <<>>
    /\ files' = <<>>
    /\ nodes' = <<>>
    /\ edges' = <<>>
    /\ spent' = spent + 1
    /\ lastUpdate' = NoUpdate
    /\ UNCHANGED <<isGenerating, abortControllerRef, runs, now, aloneVars>>

(* ------------------------- App.tsx: handleRun -------------------------- *)

\* App.tsx:293
StartY(ns) == IF Len(ns) > 0 THEN MaxOf({ns[i].y : i \in 1..Len(ns)}) + 300 ELSE 100

\* App.tsx:298-325
NewNodes(t, startY) ==
    << [id |-> UserNodeId(t), type |-> "user", status |-> "complete",
        x |-> 100, y |-> startY, fullContent |-> Prompt],
       [id |-> ModelNodeId(t), type |-> "model", status |-> "active",
        x |-> 500, y |-> startY, fullContent |-> <<>>] >>

\* App.tsx:327-329
NewEdges(t) ==
    << [id |-> EdgeId(UserNodeId(t), ModelNodeId(t)), source |-> UserNodeId(t),
        target |-> ModelNodeId(t), animated |-> TRUE] >>

\* App.tsx:269-290: the sliced (or whole) history, the user message, the placeholder
StartedMessages(history, t) ==
    history \o
    << [id |-> t, role |-> RoleUser, text |-> Prompt, isLoading |-> FALSE,
        usage |-> FALSE],
       [id |-> t + 1, role |-> RoleModel, text |-> <<>>, isLoading |-> TRUE,
        usage |-> FALSE] >>

\* the locals of one handleRun call and of the streamGeminiResponse call it awaits
NewRun(t, startY) ==
    [t |-> t, modelMessageId |-> t + 1, startY |-> startY,
     toolNodeCreated |-> FALSE, aborted |-> FALSE,
     fullText |-> <<>>, foundMetadata |-> FALSE,
     pc |-> "streaming", lateUpdate |-> FALSE]

\* saveAndRun (App.tsx:510-520) passes messages.slice(0, index) for a user message
\* at 0-based index; every other caller passes no slicedHistory
Slices == {Len(messages)} \cup {i - 1 : i \in {j \in 1..Len(messages) : messages[j].role = RoleUser}}

\* App.tsx:263: the guard of handleRun (the prompt is not blank)
RunGuard == ~isGenerating

\* App.tsx:261-341, up to the await of streamGeminiResponse.  The clock is read
\* for the message ids at least two ticks after the read before it (the
\* placeholder takes the tick in between).  Editing a message and running it
\* again are two user actions.
handleRun(slice) ==
    /\ RunGuard
    /\ spent + (IF slice < Len(messages) THEN 2 ELSE 1) <= MaxSpend
    /\ LET t == now + 2
           startY == StartY(nodes)
       IN  /\ now' = t
           /\ messages' = StartedMessages(SubSeq(messages, 1, slice), t)
           /\ isGenerating' = TRUE
           /\ nodes' = nodes \o NewNodes(t, startY)
           /\ edges' = edges \o NewEdges(t)
           /\ runs' = Append(runs, NewRun(t, startY))
           /\ abortControllerRef' = Len(runs) + 1
    /\ spent' = spent + (IF slice < Len(messages) THEN 2 ELSE 1)
    /\ lastUpdate' = NoUpdate
    /\ UNCHANGED <<files, aloneVars>>

(* --------------------- App.tsx: the onUpdate callback ------------------ *)

\* App.tsx:364-379
MessagesUpdated(prev, modelMessageId, chunkText, usageMetadata) ==
    [i \in 1..Len(prev) |->
        IF prev[i].id = modelMessageId
          THEN [prev[i] EXCEPT !.text = chunkText, !.isLoading = FALSE,
                               !.usage = IF usageMetadata THEN TRUE ELSE @]
        ELSE prev[i]]

\* App.tsx:381-389
ModelNodeUpdated(prev, modelNodeId, chunkText) ==
    [i \in 1..Len(prev) |->
        IF prev[i].id = modelNodeId THEN [prev[i] EXCEPT !.fullContent = chunkText]
        ELSE prev[i]]

\* App.tsx:395-410
ToolNodeAdded(prev, toolNodeId, startY) ==
    Append(prev, [id |-> toolNodeId, type |-> "tool", status |-> "complete",
                  x |-> 300, y |-> startY + 150, fullContent |-> GroundingJson])

\* App.tsx:412-415
ToolEdgeAdded(prev, modelNodeId, toolNodeId) ==
    Append(prev, [id |-> EdgeId(modelNodeId, toolNodeId), source |-> modelNodeId,
                  target |-> toolNodeId, animated |-> FALSE])

\* MapSet deleting the key before it sets it: an entry set again moves to the end
MapSetMovingToEnd(entries, f) ==
    Append(SelectSeq(entries, LAMBDA e : e.path # f.path), f)

\* Map.prototype.set on a Map kept as its entries in insertion order
MapSet(entries, f) ==
    IF \E i \in 1..Len(entries) : entries[i].path = f.path
      THEN [i \in 1..Len(entries) |-> IF entries[i].path = f.path THEN f ELSE entries[i]]
    ELSE Append(entries, f)

RECURSIVE MapSetAll(_, _)
MapSetAll(entries, fs) ==
    IF fs = <<>> THEN entries ELSE MapSetAll(MapSet(entries, Head(fs)), Tail(fs))

\* FilesUpserted appending what was parsed to what was there
FilesAppended(prevFiles, parsedFiles) == prevFiles \o parsedFiles

\* App.tsx:420-426
FilesUpserted(prevFiles, parsedFiles) ==
    MapSetAll(MapSetAll(<<>>, prevFiles), parsedFiles)

\* App.tsx:437-449
FileNodePushed(updatedNodes, fileNodeId, file, startY, fileYOffset) ==
    Append(updatedNodes,
           [id |-> fileNodeId, type |-> "file", status |-> "complete",
            x |-> 900, y |-> startY + fileYOffset, fullContent |-> file.content])

\* App.tsx:465-469: Array.prototype.map builds a new array, which is dropped
FileNodeReextracted(updatedNodes, fileNodeId, file) == updatedNodes

\* App.tsx:451-461
FileEdgeAdded(prevEdges, modelNodeId, fileNodeId) ==
    IF ~\E i \in 1..Len(prevEdges) : prevEdges[i].target = fileNodeId
      THEN Append(prevEdges, [id |-> EdgeId(modelNodeId, fileNodeId),
                              source |-> modelNodeId, target |-> fileNodeId,
                              animated |-> FALSE])
    ELSE prevEdges

\* FileNodesLoop without the `exists` test: every parsed file pushes a node
RECURSIVE FileNodesLoopAlwaysPushing(_, _, _, _, _)
FileNodesLoopAlwaysPushing(acc, parsedFiles, k, modelNodeId, startY) ==
    IF k > Len(parsedFiles) THEN acc
    ELSE LET file == parsedFiles[k]
             fileNodeId == FileNodeId(modelNodeId, file.path)
             next == [nodes |-> FileNodePushed(acc.nodes, fileNodeId, file,
                                               startY, acc.fileYOffset),
                      edges |-> Append(acc.edges,
                                       [id |-> EdgeId(modelNodeId, fileNodeId),
                                        source |-> modelNodeId, target |-> fileNodeId,
                                        animated |-> FALSE]),
                      fileYOffset |-> acc.fileYOffset + 150]
         IN  FileNodesLoopAlwaysPushing(next, parsedFiles, k + 1, modelNodeId, startY)

\* App.tsx:428-473: the forEach over parsedFiles, from file number k on
RECURSIVE FileNodesLoop(_, _, _, _, _)
FileNodesLoop(acc, parsedFiles, k, modelNodeId, startY) ==
    IF k > Len(parsedFiles) THEN acc
    ELSE LET file == parsedFiles[k]
             fileNodeId == FileNodeId(modelNodeId, file.path)
             exists == \E i \in 1..Len(acc.nodes) : acc.nodes[i].id = fileNodeId
             next == IF ~exists
                       THEN [nodes |-> FileNodePushed(acc.nodes, fileNodeId, file,
                                                      startY, acc.fileYOffset),
                             edges |-> FileEdgeAdded(acc.edges, modelNodeId, fileNodeId),
                             fileYOffset |-> acc.fileYOffset + 150]
                     ELSE [acc EXCEPT
                             !.nodes = FileNodeReextracted(acc.nodes, fileNodeId, file)]
         IN  FileNodesLoop(next, parsedFiles, k + 1, modelNodeId, startY)

\* ToolNodeDue without the toolNodeCreated flag
ToolNodeDueAlways(run, groundingMetadata) == groundingMetadata

\* App.tsx:391
ToolNodeDue(run, groundingMetadata) == groundingMetadata /\ ~run.toolNodeCreated

\* App.tsx:363-481: the callback of the call whose locals are `run`, given the
\* update {text, groundingMetadata, usageMetadata}; the result is the new
\* messages, files, nodes, edges and locals.  lateUpdate records a call made
\* after the signal of the run was aborted.  The Date.now() of the Tool node's
\* id returns the value it returned last: the clock of the model ticks when
\* handleRun and its catch block read it, and two reads in between are reads
\* within one millisecond.
onUpdate(run, chunkText, groundingMetadata, usageMetadata) ==
    LET modelNodeId == ModelNodeId(run.t)
        makeTool == ToolNodeDue(run, groundingMetadata)
        toolNodeId == ToolNodeId(now)
        nodes1 == ModelNodeUpdated(nodes, modelNodeId, chunkText)
        nodes2 == IF makeTool THEN ToolNodeAdded(nodes1, toolNodeId, run.startY)
                  ELSE nodes1
        edges2 == IF makeTool THEN ToolEdgeAdded(edges, modelNodeId, toolNodeId)
                  ELSE edges
        parsedFiles == parseFilesFromResponse(chunkText)
        graph == IF Len(parsedFiles) > 0
                   THEN FileNodesLoop([nodes |-> nodes2, edges |-> edges2,
                                       fileYOffset |-> 0],
                                      parsedFiles, 1, modelNodeId, run.startY)
                 ELSE [nodes |-> nodes2, edges |-> edges2, fileYOffset |-> 0]
    IN  [messages |-> MessagesUpdated(messages, run.modelMessageId, chunkText,
                                      usageMetadata),
         files |-> IF Len(parsedFiles) > 0 THEN FilesUpserted(files, parsedFiles)
                   ELSE files,
         nodes |-> graph.nodes,
         edges |-> graph.edges,
         run |-> [run EXCEPT !.toolNodeCreated = @ \/ makeTool,
                             !.lateUpdate = @ \/ run.aborted]]

(* ------------- App.tsx: handleRun after streamGeminiResponse ----------- *)

\* App.tsx:485
ReturnedNodes(prev, modelNodeId) ==
    [i \in 1..Len(prev) |->
        IF prev[i].id = modelNodeId THEN [prev[i] EXCEPT !.status = "complete"]
        ELSE prev[i]]

\* App.tsx:486
ReturnedEdges(prev, modelNodeId) ==
    [i \in 1..Len(prev) |->
        IF prev[i].target = modelNodeId THEN [prev[i] EXCEPT !.animated = FALSE]
        ELSE prev[i]]

\* App.tsx:489-492
CaughtMessages(prev, id) ==
    Append(prev, [id |-> id, role |-> RoleModel, text |-> <<Ch("e")>>,
                  isLoading |-> FALSE, usage |-> FALSE])

\* App.tsx:493
CaughtNodes(prev, modelNodeId) ==
    [i \in 1..Len(prev) |->
        IF prev[i].id = modelNodeId THEN [prev[i] EXCEPT !.status = "error"]
        ELSE prev[i]]

\* Finally leaving the flag and the ref as they are
FinallyKeeping ==
    /\ isGenerating' = isGenerating
    /\ abortControllerRef' = abortControllerRef

\* App.tsx:494-497
Finally ==
    /\ isGenerating' = FALSE
    /\ abortControllerRef' = 0

\* serviceCatch returning for every error
serviceCatchSwallowing(error) == "returned"

\* geminiService.ts:123-129: what the catch block does with an error
serviceCatch(error) == IF error = "Aborted by user" THEN "returned" ELSE "thrown"

\* App.tsx:485-497: the rest of the handleRun call of run r once the awaited
\* promise has settled; pc is the terminal state of the stream.  The catch block
\* reads the clock for a message id, as handleRun does: two ticks after the read
\* before it.
handleRunSettled(r, outcome, pc) ==
    LET modelNodeId == ModelNodeId(runs[r].t)
    IN  /\ runs' = [runs EXCEPT ![r].pc = pc]
        /\ IF outcome = "returned"
             THEN /\ nodes' = ReturnedNodes(nodes, modelNodeId)
                  /\ edges' = ReturnedEdges(edges, modelNodeId)
                  /\ UNCHANGED <<messages, now>>
           ELSE /\ messages' = CaughtMessages(messages, now + 2)
                /\ now' = now + 2
                /\ nodes' = CaughtNodes(nodes, modelNodeId)
                /\ UNCHANGED edges
        /\ Finally
        /\ lastUpdate' = NoUpdate
        /\ UNCHANGED <<files, aloneVars>>

(* --------------- geminiService.ts: streamGeminiResponse ---------------- *)

\* signalAborted never seeing the abort
signalNeverAborted(run) == FALSE

\* geminiService.ts:95: signal?.aborted
signalAborted(run) == run.aborted

\* fullText replaced by the text of the chunk
AccumulatedReplacing(fullText, text) == text

\* geminiService.ts:112: fullText += (text || '')
Accumulated(fullText, text) == fullText \o text

\* geminiService.ts:108: chunk.text of the chunks the streams are made of: no
\* text, plain text, a declaration cut before its content, inside it and after
\* it, and whole declarations of both paths, one path with two contents
ChunkTexts ==
    { <<>>,
      <<Ch("x")>>,
      <<OpenTag(PathA)>>,
      <<OpenTag(PathB), Ch("x")>>,
      <<Ch("x"), CloseTag>>,
      <<OpenTag(PathA), CloseTag>>,
      <<OpenTag(PathA), Ch("x"), CloseTag>>,
      <<OpenTag(PathB), NL, Ch("x"), CloseTag>> }

\* what a chunk spends of MaxSpend
Cost(text, grounding, usage) ==
    LET c == (IF text # <<>> THEN 1 ELSE 0) + (IF grounding THEN 1 ELSE 0)
             + (IF usage THEN 1 ELSE 0)
    IN  IF c = 0 THEN 1 ELSE c

\* geminiService.ts:94-119: one iteration of the for-await loop of run r, the
\* stream yielding a chunk with this text, grounding metadata and usage metadata
streamChunk(r, text, grounding, usage) ==
    /\ runs[r].pc = "streaming"
    /\ spent + Cost(text, grounding, usage) <= MaxSpend
    /\ spent' = spent + Cost(text, grounding, usage)
    /\ IF signalAborted(runs[r])
         THEN handleRunSettled(r, serviceCatch("Aborted by user"), "cancelled")
       ELSE LET foundMetadata == runs[r].foundMetadata \/ grounding
                run1 == [runs[r] EXCEPT !.foundMetadata = foundMetadata]
            IN  IF text # <<>> \/ usage
                  THEN LET run2 == [run1 EXCEPT !.fullText = Accumulated(@, text)]
                           upd == onUpdate(run2, run2.fullText, foundMetadata, usage)
                       IN  /\ messages' = upd.messages
                           /\ files' = upd.files
                           /\ nodes' = upd.nodes
                           /\ edges' = upd.edges
                           /\ runs' = [runs EXCEPT ![r] = upd.run]
                           /\ lastUpdate' =
                                 [r |-> r, g |-> foundMetadata,
                                  again |-> /\ lastUpdate.r = r
                                            /\ lastUpdate.g = foundMetadata
                                            /\ text = <<>>]
                           /\ UNCHANGED <<isGenerating, abortControllerRef, now,
                                          aloneVars>>
                ELSE /\ runs' = [runs EXCEPT ![r] = run1]
                     /\ UNCHANGED <<messages, files, nodes, edges, isGenerating,
                                    abortControllerRef, now, lastUpdate,
                                    aloneVars>>

\* geminiService.ts:121: the stream ends, the loop exits and fullText is returned
streamDone(r) ==
    /\ runs[r].pc = "streaming"
    /\ handleRunSettled(r, "returned", "completed")
    /\ UNCHANGED spent

\* geminiService.ts:82, 94: generateContentStream or the stream itself throws
streamError(r) ==
    /\ runs[r].pc = "streaming"
    /\ handleRunSettled(r, serviceCatch("network"), "failed")
    /\ UNCHANGED spent

(* --------------------------- specification ----------------------------- *)

\* the application: user actions and stream events in any order
Next ==
    \/ \E slice \in Slices : handleRun(slice)
    \/ handleStop
    \/ clearHistory
    \/ \E p \in Paths : handleFileUpdate(p, Typed)
    \/ \E p \in Paths : handleFileCreate(p)
    \/ \E p \in Paths : handleFileDelete(p)
    \/ \E r \in 1..Len(runs), text \in ChunkTexts, g \in BOOLEAN, u \in BOOLEAN :
          streamChunk(r, text, g, u)
    \/ \E r \in 1..Len(runs) : streamDone(r)
    \/ \E r \in 1..Len(runs) : streamError(r)

Spec == Init /\ [][Next]_vars

\* the turns on their own: runs, stops and chunks that carry no text but
\* grounding and usage metadata, with more to spend, so that three turns can
\* follow one another
TurnsInit == Constructed(MaxTurnSpend)

TurnsNext ==
    \/ Len(runs) < MaxTurns /\ handleRun(Len(messages))
    \/ handleStop
    \/ \E r \in 1..Len(runs) : streamChunk(r, <<>>, TRUE, TRUE)
    \/ \E r \in 1..Len(runs) : streamDone(r)

TurnsSpec == TurnsInit /\ [][TurnsNext]_vars

\* geminiService.ts:94-129: the stream of run r comes to its end: the source
\* completes, fails, or delivers one more chunk after an abort
streamEnds(r) ==
    /\ r \in 1..Len(runs)
    /\ \/ streamDone(r)
       \/ streamError(r)
       \/ runs[r].aborted /\ streamChunk(r, <<>>, TRUE, TRUE)

\* the turns with a stream source that brings every stream to its end
FairNext ==
    \/ Len(runs) < MaxTurns /\ handleRun(Len(messages))
    \/ handleStop
    \/ \E r \in 1..Len(runs) : streamChunk(r, <<>>, TRUE, TRUE)
    \/ \E r \in 1..Len(runs) : streamDone(r)
    \/ \E r \in 1..Len(runs) : streamError(r)

FairSpec ==
    /\ TurnsInit
    /\ [][FairNext]_vars
    /\ \A r \in 1..MaxTurns : WF_vars(streamEnds(r))

\* the extractor on its own: the buffer grows by one lexeme and is scanned again
feed(x) ==
    /\ Len(buffer) < MaxBuf
    /\ buffer' = Append(buffer, x)
    /\ parsed' = parseFilesFromResponse(buffer')
    /\ UNCHANGED <<appVars, treeVars, markdownVars, proseVars, inlineVars>>

ParseNext == \E x \in Lexemes : feed(x)

ParseSpec == Init /\ [][ParseNext]_vars

(* -------------------- part_001: buildFileTree -------------------------- *)

\* the paths of the stores the tree is built from: plain names, names that
\* differ in case only, nested paths, a path that is a directory of another, a
\* leading and a doubled '/'
TreePaths ==
    { <<"a">>, <<"b">>, <<"B">>,
      <<"a", "/", "b">>, <<"a", "/", "B">>, <<"b", "/", "a">>,
      <<"a", "/", "b", "/", "a">>,
      <<"/", "a">>, <<"a", "/", "/", "b">> }

\* String.prototype.split(sep), the pieces in order (empty ones included)
RECURSIVE Split(_, _)
Split(s, sep) ==
    LET at == {i \in 1..Len(s) : s[i] = sep}
    IN  IF at = {} THEN <<s>>
        ELSE LET i == CHOOSE a \in at : \A b \in at : a <= b
             IN  <<SubSeq(s, 1, i - 1)>> \o Split(Drop(s, i), sep)

\* part_001:27: file.path.split('/').filter(p => p)
PathParts(path) == SelectSeq(Split(path, "/"), LAMBDA x : x # <<>>)

\* part_001:32: the template string `${currentPath}/${part}`
JoinPath(currentPath, part) ==
    IF currentPath # <<>> THEN currentPath \o <<"/">> \o part ELSE part

\* part_001:37-43
NewFileNode(part, currentPath, isFile, file) ==
    [name |-> part, path |-> currentPath,
     type |-> IF isFile THEN "file" ELSE "directory",
     children |-> <<>>,
     content |-> IF isFile THEN file.content ELSE <<>>]

\* InsertParts without the find: every part pushes a node
RECURSIVE InsertPartsAlwaysPushing(_, _, _, _, _)
InsertPartsAlwaysPushing(level, pathParts, index, pathSoFar, file) ==
    IF index > Len(pathParts) THEN level
    ELSE LET part == pathParts[index]
             currentPath == JoinPath(pathSoFar, part)
             isFile == index = Len(pathParts)
             level1 == Append(level, NewFileNode(part, currentPath, isFile, file))
             e == Len(level1)
         IN  IF ~isFile
               THEN [level1 EXCEPT ![e].children =
                        InsertPartsAlwaysPushing(@, pathParts, index + 1,
                                                 currentPath, file)]
             ELSE level1

\* part_001:31-51: the forEach over the parts of one file from part number
\* index on, currentLevel being `level`; the result is that level with the
\* nodes pushed into it and below it.  A part that finds a file node does not
\* change currentLevel: the parts after it are looked up in the same level.
RECURSIVE InsertParts(_, _, _, _, _)
InsertParts(level, pathParts, index, pathSoFar, file) ==
    IF index > Len(pathParts) THEN level
    ELSE LET part == pathParts[index]
             currentPath == JoinPath(pathSoFar, part)
             isFile == index = Len(pathParts)
             found == {i \in 1..Len(level) : level[i].name = part}
             level1 == IF found = {}
                         THEN Append(level, NewFileNode(part, currentPath, isFile, file))
                       ELSE level
             e == IF found = {} THEN Len(level1)
                  ELSE CHOOSE i \in found : \A j \in found : i <= j
         IN  IF ~isFile /\ level1[e].type = "directory"
               THEN [level1 EXCEPT ![e].children =
                        InsertParts(@, pathParts, index + 1, currentPath, file)]
             ELSE InsertParts(level1, pathParts, index + 1, currentPath, file)

\* part_001:26-52: the forEach over the files
RECURSIVE InsertFiles(_, _, _)
InsertFiles(root, fs, k) ==
    IF k > Len(fs) THEN root
    ELSE InsertFiles(InsertParts(root, PathParts(fs[k].path), 1, <<>>, fs[k]), fs, k + 1)

\* the letter a character is a case of, as a number
Letter(c) == CASE c = "a" -> 1 [] c = "b" -> 2 [] c = "B" -> 2 [] OTHER -> 0

IsUpper(c) == c = "B"

\* the first place where two sequences differ, 0 when there is none (one
\* begins the other, or they are the same)
FirstDifference(a, b) ==
    LET n == IF Len(a) < Len(b) THEN Len(a) ELSE Len(b)
        at == {i \in 1..n : a[i] # b[i]}
    IN  IF at = {} THEN 0 ELSE CHOOSE i \in at : \A j \in at : i <= j

\* the letters of a name
Letters(name) == [i \in 1..Len(name) |-> Letter(name[i])]

\* String.prototype.localeCompare on names of letters: the letters decide,
\* whatever their case; then the shorter name comes first; names of the same
\* letters are ordered by case, lower case first
localeCompare(a, b) ==
    LET d == FirstDifference(Letters(a), Letters(b))
        t == FirstDifference(a, b)
    IN  IF d # 0 THEN (IF Letter(a[d]) < Letter(b[d]) THEN -1 ELSE 1)
        ELSE IF Len(a) # Len(b) THEN (IF Len(a) < Len(b) THEN -1 ELSE 1)
        ELSE IF t = 0 THEN 0
        ELSE IF IsUpper(b[t]) THEN -1 ELSE 1

\* part_001:55-58: the compare function given to sort
compareNodes(a, b) ==
    IF a.type = b.type THEN localeCompare(a.name, b.name)
    ELSE IF a.type = "directory" THEN -1 ELSE 1

\* sortNodes sorting the list it is given and not the lists below it
sortNodesTopOnly(ns) == SortSeq(ns, LAMBDA a, b : compareNodes(a, b) < 0)

\* part_001:54-62
RECURSIVE sortNodes(_)
sortNodes(ns) ==
    LET sorted == SortSeq(ns, LAMBDA a, b : compareNodes(a, b) < 0)
    IN  [i \in 1..Len(sorted) |->
            [sorted[i] EXCEPT !.children = sortNodes(@)]]

\* part_001:23-66
buildFileTree(fs) == sortNodes(InsertFiles(<<>>, fs, 1))

\* a file of the store
PanelFile(path) == [path |-> path, content |-> Typed]

\* the tree on its own: the store gains a file and the memo is computed again
\* (part_001:255)
storeGains(path) ==
    /\ Len(panelFiles) < MaxTreeFiles
    /\ \A i \in 1..Len(panelFiles) : panelFiles[i].path # path
    /\ panelFiles' = Append(panelFiles, PanelFile(path))
    /\ fileTree' = buildFileTree(panelFiles')
    /\ UNCHANGED <<appVars, parserVars, markdownVars, proseVars, inlineVars>>

TreeNext == \E path \in TreePaths : storeGains(path)

TreeSpec == Init /\ [][TreeNext]_vars

(* ---------------------- components/Markdown.tsx ----------------------- *)

\* the markers <think> and </think>, each matched as a unit
ThinkOpen == [k |-> "thinkOpen", v |-> <<>>]
ThinkClose == [k |-> "thinkClose", v |-> <<>>]

MarkdownLexemes == {ThinkOpen, ThinkClose, Ch("x"), Ch(" ")}

\* thinkRegexExec without the `|$` alternative: a thought needs its closing
\* marker
thinkRegexExecClosedOnly(text, from) ==
    LET starts == {i \in from..Len(text) :
                     /\ text[i] = ThinkOpen
                     /\ \E j \in (i + 1)..Len(text) : text[j] = ThinkClose}
    IN  IF starts = {} THEN [found |-> FALSE]
        ELSE LET i == CHOOSE a \in starts : \A b \in starts : a <= b
                 j == CHOOSE a \in (i + 1)..Len(text) :
                        /\ text[a] = ThinkClose
                        /\ \A b \in (i + 1)..(a - 1) : text[b] # ThinkClose
             IN  [found |-> TRUE, index |-> i,
                  group1 |-> SubSeq(text, i + 1, j - 1), lastIndex |-> j + 1]

\* thinkRegexExec with a greedy group: the thought runs to the last </think>,
\* or to the end of the text when there is none
thinkRegexExecGreedy(text, from) ==
    LET starts == {i \in from..Len(text) : text[i] = ThinkOpen}
    IN  IF starts = {} THEN [found |-> FALSE]
        ELSE LET i == CHOOSE a \in starts : \A b \in starts : a <= b
                 closes == {a \in (i + 1)..Len(text) : text[a] = ThinkClose}
                 j == IF closes = {} THEN Len(text) + 1
                      ELSE CHOOSE a \in closes : \A b \in closes : b <= a
             IN  [found |-> TRUE, index |-> i,
                  group1 |-> SubSeq(text, i + 1, j - 1),
                  lastIndex |-> IF closes = {} THEN Len(text) + 1 ELSE j + 1]

\* Markdown.tsx:26, 32: one thinkRegex.exec(content) with lastIndex at `from`
\* (1-based): the leftmost <think> at or after `from`, the lazy group running
\* to the first </think> after it, or to the end of the text when there is none
thinkRegexExec(text, from) ==
    LET starts == {i \in from..Len(text) : text[i] = ThinkOpen}
    IN  IF starts = {} THEN [found |-> FALSE]
        ELSE LET i == CHOOSE a \in starts : \A b \in starts : a <= b
                 closes == {a \in (i + 1)..Len(text) : text[a] = ThinkClose}
                 j == IF closes = {} THEN Len(text) + 1
                      ELSE CHOOSE a \in closes : \A b \in closes : a <= b
             IN  [found |-> TRUE, index |-> i,
                  group1 |-> SubSeq(text, i + 1, j - 1),
                  lastIndex |-> IF closes = {} THEN Len(text) + 1 ELSE j + 1]

\* Markdown.tsx:35-37, 49-51: a ContentParser part; `at` is the place its key
\* names
ContentPart(text, at) == [kind |-> "content", text |-> text, at |-> at]

\* Markdown.tsx:41-43: a ThinkingBlock part
ThinkPart(thought, at) == [kind |-> "think", text |-> thought, at |-> at]

\* Markdown.tsx:32-52: the while loop from lastIndex on, and the remaining text
RECURSIVE MarkdownLoop(_, _, _)
MarkdownLoop(text, lastIndex, out) ==
    LET match == thinkRegexExec(text, lastIndex)
    IN  IF ~match.found
          THEN IF lastIndex <= Len(text)
                 THEN Append(out, ContentPart(SubSeq(text, lastIndex, Len(text)), lastIndex))
               ELSE out
        ELSE LET out1 == IF match.index > lastIndex
                           THEN Append(out, ContentPart(SubSeq(text, lastIndex,
                                                               match.index - 1),
                                                        lastIndex))
                         ELSE out
             IN  MarkdownLoop(text, match.lastIndex,
                              Append(out1, ThinkPart(match.group1, match.index)))

\* Markdown.tsx:20-55: the parts Markdown renders, none for an empty content
Markdown(text) == IF text = <<>> THEN <<>> ELSE MarkdownLoop(text, 1, <<>>)

\* Markdown on its own: the content grows by one lexeme, as the text of a
\* message does while it streams, and is rendered again
rendered(x) ==
    /\ Len(content) < MaxContent
    /\ content' = Append(content, x)
    /\ parts' = Markdown(content')
    /\ UNCHANGED <<appVars, parserVars, treeVars, proseVars, inlineVars>>

MarkdownNext == \E x \in MarkdownLexemes : rendered(x)

MarkdownSpec == Init /\ [][MarkdownNext]_vars

(* ----------------- components/Markdown.tsx: ContentParser ------------- *)

\* the fence ```, matched as a unit
Fence == [k |-> "fence", v |-> <<>>]

\* \w on the characters of the texts
IsWord(x) == x = Ch("x")

ProseLexemes == {Fence, Ch("x"), Ch(" "), NL}

\* the place after the word characters that begin at place k
RECURSIVE AfterWord(_, _)
AfterWord(text, k) ==
    IF k <= Len(text) /\ IsWord(text[k]) THEN AfterWord(text, k + 1) ELSE k

\* the places where ```(\w+)?\n matches: a fence, the word characters after
\* it (as many as there are, or none) and a newline
FenceOpensAt(text, i) ==
    /\ text[i] = Fence
    /\ AfterWord(text, i + 1) <= Len(text)
    /\ text[AfterWord(text, i + 1)] = NL

\* codeBlockRegexExec with `|$` after the closing fence: a block without its
\* closing fence runs to the end of the text
codeBlockRegexExecToEnd(text, from) ==
    LET starts == {i \in from..Len(text) : FenceOpensAt(text, i)}
    IN  IF starts = {} THEN [found |-> FALSE]
        ELSE LET i == CHOOSE a \in starts : \A b \in starts : a <= b
                 nl == AfterWord(text, i + 1)
                 closes == {a \in (nl + 1)..Len(text) : text[a] = Fence}
                 j == IF closes = {} THEN Len(text) + 1
                      ELSE CHOOSE a \in closes : \A b \in closes : a <= b
             IN  [found |-> TRUE, index |-> i,
                  group1 |-> SubSeq(text, i + 1, nl - 1),
                  group2 |-> SubSeq(text, nl + 1, j - 1),
                  lastIndex |-> IF closes = {} THEN Len(text) + 1 ELSE j + 1]

\* Markdown.tsx:59, 64: one codeBlockRegex.exec(content) with lastIndex at
\* `from` (1-based): the leftmost place at or after `from` where the opening
\* matches and a fence follows the newline, the lazy group running to the first
\* such fence
codeBlockRegexExec(text, from) ==
    LET starts == {i \in from..Len(text) :
                     /\ FenceOpensAt(text, i)
                     /\ \E j \in (AfterWord(text, i + 1) + 1)..Len(text) :
                           text[j] = Fence}
    IN  IF starts = {} THEN [found |-> FALSE]
        ELSE LET i == CHOOSE a \in starts : \A b \in starts : a <= b
                 nl == AfterWord(text, i + 1)
                 closes == {a \in (nl + 1)..Len(text) : text[a] = Fence}
                 j == CHOOSE a \in closes : \A b \in closes : a <= b
             IN  [found |-> TRUE, index |-> i,
                  group1 |-> SubSeq(text, i + 1, nl - 1),
                  group2 |-> SubSeq(text, nl + 1, j - 1),
                  lastIndex |-> j + 1]

\* Markdown.tsx:66-68, 78-80: a TextSegment part; `at` is the place its key
\* names
TextBlock(text, at) ==
    [kind |-> "text", text |-> text, language |-> <<>>, at |-> at]

\* Markdown.tsx:70-74: a CodeBlock part
CodeBlock(language, code, at) ==
    [kind |-> "code", text |-> code,
     language |-> IF language = <<>> THEN LangText ELSE language, at |-> at]

\* Markdown.tsx:64-82: the while loop from lastIndex on, and the remaining text
RECURSIVE ContentParserLoop(_, _, _)
ContentParserLoop(text, lastIndex, out) ==
    LET match == codeBlockRegexExec(text, lastIndex)
    IN  IF ~match.found
          THEN IF lastIndex <= Len(text)
                 THEN Append(out, TextBlock(SubSeq(text, lastIndex, Len(text)), lastIndex))
               ELSE out
        ELSE LET out1 == IF match.index > lastIndex
                           THEN Append(out, TextBlock(SubSeq(text, lastIndex,
                                                             match.index - 1),
                                                      lastIndex))
                         ELSE out
             IN  ContentParserLoop(text, match.lastIndex,
                                   Append(out1, CodeBlock(match.group1, match.group2,
                                                          match.index)))

\* Markdown.tsx:58-85
ContentParser(text) == ContentParserLoop(text, 1, <<>>)

\* ContentParser on its own: the text grows by one lexeme and is parsed again
proseParsed(x) ==
    /\ Len(prose) < MaxProse
    /\ prose' = Append(prose, x)
    /\ blocks' = ContentParser(prose')
    /\ UNCHANGED <<appVars, parserVars, treeVars, markdownVars, inlineVars>>

ProseNext == \E x \in ProseLexemes : proseParsed(x)

ProseSpec == Init /\ [][ProseNext]_vars

(* --------------------- Markdown.tsx: parseInline ----------------------- *)

\* a line is a sequence of characters: the two delimiters and a letter
\* the character U+0060
Backtick == "backtick"

InlineChars == {Backtick, "*", "x"}

startsWith(s, pre) == Len(s) >= Len(pre) /\ SubSeq(s, 1, Len(pre)) = pre

endsWith(s, suf) ==
    Len(s) >= Len(suf) /\ SubSeq(s, Len(s) - Len(suf) + 1, Len(s)) = suf

\* s.slice(n, -n)
slice(s, n) == SubSeq(s, n + 1, Len(s) - n)

\* the first match of the code pattern at or after from: a backtick, one or more
\* characters that are not backticks, a backtick
codeSpanExec(text, from) ==
    LET ok(i) == /\ text[i] = Backtick
                 /\ \E j \in (i + 2)..Len(text) :
                       /\ text[j] = Backtick
                       /\ \A m \in (i + 1)..(j - 1) : text[m] # Backtick
        starts == {i \in from..Len(text) : ok(i)}
    IN  IF starts = {} THEN [found |-> FALSE]
        ELSE LET i == CHOOSE a \in starts : \A b \in starts : a <= b
                 j == CHOOSE a \in (i + 2)..Len(text) :
                        /\ text[a] = Backtick
                        /\ \A m \in (i + 1)..(a - 1) : text[m] # Backtick
             IN  [found |-> TRUE, index |-> i, lastIndex |-> j + 1]

\* the first match of the bold pattern at or after from: two asterisks, one
\* or more characters that are not asterisks, two asterisks
boldSpanExec(text, from) ==
    LET ends(i) == {j \in (i + 3)..(Len(text) - 1) :
                      /\ text[j] = "*" /\ text[j + 1] = "*"
                      /\ \A m \in (i + 2)..(j - 1) : text[m] # "*"}
        ok(i) == /\ i + 1 <= Len(text)
                 /\ text[i] = "*" /\ text[i + 1] = "*"
                 /\ ends(i) # {}
        starts == {i \in from..Len(text) : ok(i)}
    IN  IF starts = {} THEN [found |-> FALSE]
        ELSE LET i == CHOOSE a \in starts : \A b \in starts : a <= b
                 j == CHOOSE a \in ends(i) : TRUE
             IN  [found |-> TRUE, index |-> i, lastIndex |-> j + 2]

\* text.split(code pattern): the text between the matches and, the group
\* being captured, the matches themselves; empty strings are kept
RECURSIVE splitCode(_, _)
splitCode(text, from) ==
    LET m == codeSpanExec(text, from)
    IN  IF ~m.found THEN <<SubSeq(text, from, Len(text))>>
        ELSE <<SubSeq(text, from, m.index - 1),
               SubSeq(text, m.index, m.lastIndex - 1)>>
               \o splitCode(text, m.lastIndex)

\* part.split(bold pattern)
RECURSIVE splitBold(_, _)
splitBold(text, from) ==
    LET m == boldSpanExec(text, from)
    IN  IF ~m.found THEN <<SubSeq(text, from, Len(text))>>
        ELSE <<SubSeq(text, from, m.index - 1),
               SubSeq(text, m.index, m.lastIndex - 1)>>
               \o splitBold(text, m.lastIndex)

CodeSpan(text) == [kind |-> "code", text |-> text]
BoldSpan(text) == [kind |-> "bold", text |-> text]
TextSpan(text) == [kind |-> "text", text |-> text]

\* Markdown.tsx lines 221-226: a sub-part that starts and ends with two asterisks is
\* a <strong> of what is between, any other sub-part is itself
boldSpanOf(subPart) ==
    IF startsWith(subPart, <<"*", "*">>) /\ endsWith(subPart, <<"*", "*">>)
      THEN BoldSpan(slice(subPart, 2))
      ELSE TextSpan(subPart)

\* Markdown.tsx lines 214-228: a part that starts and ends with a backtick is
\* a <code> of what is between, any other part is split at its bold spans
spansOf(part) ==
    IF startsWith(part, <<Backtick>>) /\ endsWith(part, <<Backtick>>)
      THEN <<CodeSpan(slice(part, 1))>>
      ELSE LET boldParts == splitBold(part, 1)
           IN  [i \in 1..Len(boldParts) |-> boldSpanOf(boldParts[i])]

RECURSIVE FlatMap(_, _)
\* parts.map(...), the fragments flattened into one list of spans
FlatMap(codeParts, i) ==
    IF i > Len(codeParts) THEN <<>>
    ELSE spansOf(codeParts[i]) \o FlatMap(codeParts, i + 1)

\* Markdown.tsx lines 211-230
parseInline(text) == FlatMap(splitCode(text, 1), 1)

\* a line grows by one character and is rendered
typed(c) ==
    /\ Len(line) < MaxLine
    /\ line' = Append(line, c)
    /\ spans' = parseInline(line')
    /\ UNCHANGED <<appVars, parserVars, treeVars, markdownVars, proseVars>>

InlineNext == \E c \in InlineChars : typed(c)

InlineSpec == Init /\ [][InlineNext]_vars

(* ------------- the text of a message, extracted and rendered ----------- *)

MessageLexemes == {OpenTag(PathA), CloseTag, ThinkOpen, ThinkClose, Ch("x")}

\* the text of a model message grows by one lexeme; it is what onUpdate gives
\* to parseFilesFromResponse (App.tsx:418) and what the message list gives to
\* Markdown (App.tsx:741)
messageGrows(x) ==
    /\ Len(buffer) < MaxMessage
    /\ buffer' = Append(buffer, x)
    /\ parsed' = parseFilesFromResponse(buffer')
    /\ content' = buffer'
    /\ parts' = Markdown(content')
    /\ UNCHANGED <<appVars, treeVars, proseVars, inlineVars>>

MessageNext == \E x \in MessageLexemes : messageGrows(x)

MessageSpec == Init /\ [][MessageNext]_vars

(* ------------------ the language of a declared path -------------------- *)

\* what a path ends with: the keys of the table of fileParser.ts:24-28, in
\* either case, and names that are not in it
Endings ==
    { <<"j", "s">>, <<"j", "s", "x">>, <<"t", "s">>, <<"t", "s", "x">>,
      LangHtml, LangCss, LangJson, <<"p", "y">>,
      <<"J", "S">>, <<"P", "y">>, <<"T", "S", "x">>,
      <<"m", "d">>, LangText, <<"j">>, <<>> }

RECURSIVE Prefixes(_)
Prefixes(n) ==
    IF n = 0 THEN {<<>>}
    ELSE Prefixes(n - 1)
           \cup {Append(q, c) : q \in Prefixes(n - 1), c \in {"a", ".", "/"}}

\* [^"']+ of fileRegex: a path has at least one character
LanguagePaths == {q \o e : q \in Prefixes(MaxPrefix), e \in Endings} \ {<<>>}

\* the text '<file path="p">x</file>' is parsed, once
declare(p) ==
    /\ buffer = <<>>
    /\ buffer' = <<OpenTag(p), Ch("x"), CloseTag>>
    /\ parsed' = parseFilesFromResponse(buffer')
    /\ UNCHANGED <<appVars, treeVars, markdownVars, proseVars, inlineVars>>

LanguageNext == \E p \in LanguagePaths : declare(p)

LanguageSpec == Init /\ [][LanguageNext]_vars

(* ------------------------------ claims --------------------------------- *)

\* What the wire format says a text declares, read left to right: outside a
\* declaration an opening tag begins one, inside one the first closing tag ends
\* it, and everything else is content or plain text.  done lists the complete
\* declarations (the places of their tags), openAt is the opening tag of the
\* declaration still open at the end of the text, 0 when there is none.
RECURSIVE Scan(_, _, _, _)
Scan(text, k, openAt, done) ==
    IF k > Len(text) THEN [done |-> done, openAt |-> openAt]
    ELSE IF openAt = 0 /\ text[k].k = "open" THEN Scan(text, k + 1, k, done)
    ELSE IF openAt # 0 /\ text[k].k = "close"
           THEN Scan(text, k + 1, 0, Append(done, [open |-> openAt, close |-> k]))
    ELSE Scan(text, k + 1, openAt, done)

Declared(text) == Scan(text, 1, 0, <<>>)

\* the text between the tags of declaration d
Between(text, d) == SubSeq(text, d.open + 1, d.close - 1)

\* that text without one leading newline
Trimmed(text, d) ==
    LET b == Between(text, d)
    IN  IF b # <<>> /\ Head(b) = NL THEN Tail(b) ELSE b

\* the paths a text declares by complete declarations
DeclaredPaths(text) ==
    LET done == Declared(text).done
    IN  {text[done[k].open].v : k \in 1..Len(done)}

\* the last complete declaration of path p in a text that has one
LastDeclaration(text, p) ==
    LET done == Declared(text).done
        ks == {k \in 1..Len(done) : text[done[k].open].v = p}
    IN  done[CHOOSE k \in ks : \A j \in ks : j <= k]

Prefix(text, n) == SubSeq(text, 1, n)

\* the entries of the files store for path p
EntriesOf(fs, p) == {i \in 1..Len(fs) : fs[i].path = p}

\* C2, as stated: for every prefix P of the buffer that ends inside a
\* declaration not yet closed, the extractor emits nothing for that declaration
\* on P, and on the buffer, once the declaration is closed, exactly one artifact
\* whose content is the full text between the tags.  contentOf(d) is the content
\* the statement requires of the artifact of declaration d.
C2_Statement(contentOf(_)) ==
    \A n \in 0..Len(buffer) :
        LET P == Prefix(buffer, n)
            atP == Declared(P)
            atB == Declared(buffer).done
        IN  atP.openAt # 0 =>
              /\ Len(parseFilesFromResponse(P)) = Len(atP.done)
              /\ \A k \in 1..Len(atB) :
                    atB[k].open = atP.openAt =>
                      /\ Len(parsed) = Len(atB)
                      /\ parsed[k].path = buffer[atB[k].open].v
                      /\ parsed[k].content = contentOf(atB[k])

C2_FullTextBetweenTags == C2_Statement(LAMBDA d : Between(buffer, d))

\* C2, amended: the same, the content being the text between the tags without
\* one leading newline.
C2_NothingPartialThenOneArtifact == C2_Statement(LAMBDA d : Trimmed(buffer, d))

\* a buffer with two closed declarations, the first with content, and a closing
\* tag inside the text that follows: every prefix through them is a case of C2
C2_Witness ==
    LET done == Declared(buffer).done
    IN  /\ Len(done) = 2
        /\ Between(buffer, done[1]) # <<>>
        /\ Len(parsed) = 2

\* the complete declarations of path p in a text
DeclarationsOf(text, p) ==
    LET done == Declared(text).done
    IN  {k \in 1..Len(done) : text[done[k].open].v = p}

NodeIds == {nodes[i].id : i \in 1..Len(nodes)}

\* the places in the node list of the Agent node of run r
AgentNodes(r) == {i \in 1..Len(nodes) : nodes[i].id = ModelNodeId(runs[r].t)}

\* the places in the node list of the Artifact node of run r for path p
ArtifactNodes(r, p) ==
    {i \in 1..Len(nodes) :
        nodes[i].type = "file" /\ nodes[i].id = FileNodeId(ModelNodeId(runs[r].t), p)}

ArtifactEdges(r, p) ==
    {i \in 1..Len(edges) : edges[i].target = FileNodeId(ModelNodeId(runs[r].t), p)}

Streaming == {r \in 1..Len(runs) : runs[r].pc = "streaming"}

\* C1 (in every state an onUpdate call has just left): for every path p the
\* buffer of the stream declares by at least one complete <file> block, the
\* files store has exactly one entry for p and its content is that of the last
\* complete declaration of p in the buffer.
C1_OneEntryWithLastContent ==
    lastUpdate.r # 0 =>
        LET text == runs[lastUpdate.r].fullText
        IN  \A p \in DeclaredPaths(text) :
                /\ Cardinality(EntriesOf(files, p)) = 1
                /\ \A i \in EntriesOf(files, p) :
                      files[i].content = Trimmed(text, LastDeclaration(text, p))

\* C1 (in every step that is an onUpdate call): every entry of the files store
\* keeps its place, so a path extracted again stays where it was first inserted.
C1_EntriesKeepTheirPlace ==
    lastUpdate'.r # 0 =>
        \A i \in 1..Len(files) : Len(files') >= i /\ files'[i].path = files[i].path

\* C1: for every stream that declares a path p by k >= 1 complete <file> blocks,
\* after each processed chunk (the last one among them) the files store holds
\* exactly one entry for p, with the content of the last complete occurrence,
\* at the place p had when it was first inserted.
C1_UpsertKeepsOneEntryInPlace ==
    [](C1_OneEntryWithLastContent) /\ [][C1_EntriesKeepTheirPlace]_vars

\* a stream has declared the path of the first entry of a two-entry store twice,
\* with different contents, and the entry has the later one
C1_Witness ==
    /\ lastUpdate.r # 0
    /\ Len(files) = 2
    /\ LET text == runs[lastUpdate.r].fullText
           p == files[1].path
           done == Declared(text).done
       IN  /\ Cardinality(DeclarationsOf(text, p)) = 2
           /\ \E j, k \in DeclarationsOf(text, p) :
                 j < k /\ Trimmed(text, done[j]) # Trimmed(text, done[k])
           /\ files[1].content = Trimmed(text, LastDeclaration(text, p))
           /\ files[2].path \in DeclaredPaths(text)

\* C3, as stated: at most one stream started by handleRun is in flight (has
\* neither returned nor thrown) at any time.
C3_AtMostOneStreamInFlight == Cardinality(Streaming) <= 1

\* C4 (state part): onUpdate is never called for a run whose signal is aborted.
C4_NoUpdateAfterAbort == \A r \in 1..Len(runs) : ~runs[r].lateUpdate

\* C4 (step part): whatever the stream of an aborted run does next, the files
\* store, the buffer and the message of that run stay as they were.
C4_AbortedStreamChangesNothing ==
    \A r \in 1..Len(runs) :
        (runs[r].aborted /\ runs[r].pc = "streaming" /\ runs'[r] # runs[r]) =>
            /\ files' = files
            /\ runs'[r].fullText = runs[r].fullText
            /\ \A i \in 1..Len(messages) :
                  messages[i].id = runs[r].modelMessageId =>
                      Len(messages') >= i /\ messages'[i] = messages[i]

\* C4: after handleStop aborts the active session, no later chunk of it is
\* processed (onUpdate is not called again for it) and the message text and the
\* files store stay as they were after the last processed chunk.
C4_StopFreezesTheSession ==
    [](C4_NoUpdateAfterAbort) /\ [][C4_AbortedStreamChangesNothing]_vars

\* a stream that put an artifact into the store was aborted and its next chunk
\* was dropped
C4_Witness ==
    \E r \in 1..Len(runs) :
        /\ runs[r].pc = "cancelled"
        /\ \E p \in DeclaredPaths(runs[r].fullText) : EntriesOf(files, p) # {}

\* C5 (in every step in which the stream of a run fails): the failure reaches
\* handleRun, which appends the error message and marks the Agent node 'error',
\* and the files store is left as it was after the last processed chunk.
C5_FailureStep ==
    \A r \in 1..Len(runs) :
        (runs[r].pc = "streaming" /\ runs'[r].pc = "failed") =>
            /\ files' = files
            /\ Len(messages') = Len(messages) + 1
            /\ SubSeq(messages', 1, Len(messages)) = messages
            /\ messages'[Len(messages')].text = <<Ch("e")>>
            /\ \A i \in AgentNodes(r) : nodes'[i].status = "error"

\* C5: when the stream source fails after n processed chunks, the failure is
\* surfaced (it leaves streamGeminiResponse and handleRun records it) and the
\* files store equals the store after chunk n: nothing of the failed session is
\* rolled back, nothing of earlier sessions is changed or removed.
C5_FailureKeepsTheStore == [][C5_FailureStep]_vars

\* a session failed after it had put an artifact into the store beside the
\* artifact of an earlier, completed session
C5_Witness ==
    \E r1, r2 \in 1..Len(runs) :
        /\ r1 < r2
        /\ runs[r1].pc = "completed"
        /\ runs[r2].pc = "failed"
        /\ \E p1 \in DeclaredPaths(runs[r1].fullText),
              p2 \in DeclaredPaths(runs[r2].fullText) :
                /\ p1 # p2
                /\ EntriesOf(files, p1) # {}
                /\ EntriesOf(files, p2) # {}
        /\ \E i \in AgentNodes(r2) : nodes[i].status = "error"

\* C6, as stated: in every reachable state every edge's source id and target id
\* are ids of nodes of the node set.
C6_NoDanglingEdge ==
    \A i \in 1..Len(edges) : edges[i].source \in NodeIds /\ edges[i].target \in NodeIds

\* C7: for every turn and every path the node set holds at most one Artifact
\* node for that (turn, path) pair, and the edge set at most one edge to it.
C7_OneArtifactNodePerTurnAndPath ==
    \A r \in 1..Len(runs), p \in Paths :
        /\ Cardinality(ArtifactNodes(r, p)) <= 1
        /\ Cardinality(ArtifactEdges(r, p)) <= 1

\* the buffer of a turn declares a path twice and the turn has its Artifact node
\* and the edge to it
C7_Witness ==
    \E r \in 1..Len(runs), p \in Paths :
        /\ Cardinality(DeclarationsOf(runs[r].fullText, p)) >= 2
        /\ Cardinality(ArtifactNodes(r, p)) = 1
        /\ Cardinality(ArtifactEdges(r, p)) = 1

\* C8, as stated: when the stream of a turn has ended, the Agent node of the
\* turn is 'complete' if the stream completed and 'error' if it failed or was
\* cancelled by the user.
C8_AgentNodeStatusAtTheEnd ==
    \A r \in 1..Len(runs) : \A i \in AgentNodes(r) :
        /\ (runs[r].pc = "completed" /\ ~runs[r].aborted) => nodes[i].status = "complete"
        /\ runs[r].pc \in {"failed", "cancelled"} => nodes[i].status = "error"

\* C9 (state part): after an onUpdate call, the Artifact node of every path the
\* buffer declares carries the content of the last declaration of that path.
C9_PayloadIsTheLastContent ==
    lastUpdate.r # 0 =>
        LET r == lastUpdate.r
            text == runs[r].fullText
        IN  \A p \in DeclaredPaths(text) : \A i \in ArtifactNodes(r, p) :
                nodes[i].fullContent = Trimmed(text, LastDeclaration(text, p))

\* C9 (step part): an onUpdate call that finds an Artifact node for every path
\* it extracts, and makes no Tool node, leaves the edge set as it was.
C9_ReextractionKeepsTheEdges ==
    \A r \in 1..Len(runs) :
        (/\ lastUpdate'.r = r
         /\ Len(nodes') = Len(nodes)
         /\ \A p \in DeclaredPaths(runs'[r].fullText) : ArtifactNodes(r, p) # {})
        => edges' = edges

\* C9, as stated: when a chunk re-extracts a path that already has an Artifact
\* node in the turn, the node's payload becomes the newly extracted content and
\* the edge set is left unchanged.
C9_ReextractionUpdatesThePayload ==
    [](C9_PayloadIsTheLastContent) /\ [][C9_ReextractionKeepsTheEdges]_vars

\* C10 (state part): right after an onUpdate call, the same call made once more
\* (the same text and grounding metadata, with or without usage metadata) would
\* leave the files store, the node set and the edge set as they are.
C10_SecondDeliveryWouldChangeNothing ==
    lastUpdate.r # 0 =>
        \A u \in BOOLEAN :
            LET run == runs[lastUpdate.r]
                upd == onUpdate(run, run.fullText, lastUpdate.g, u)
            IN  upd.files = files /\ upd.nodes = nodes /\ upd.edges = edges

\* C10 (step part): an onUpdate call that repeats the text and grounding
\* metadata of the call before it, nothing else having happened in between,
\* leaves the files store, the node set and the edge set as they were.
C10_SecondDeliveryChangesNothing ==
    lastUpdate'.again => (files' = files /\ nodes' = nodes /\ edges' = edges)

\* C10: delivering the same cumulative buffer to the chunk handler a second
\* time, with no user action in between, leaves the files store, the node set
\* and the edge set exactly as they were after the first delivery.
C10_RedeliveryIsIdempotent ==
    [](C10_SecondDeliveryWouldChangeNothing) /\ [][C10_SecondDeliveryChangesNothing]_vars

\* a buffer that declares a file was delivered twice in a row
C10_Witness ==
    /\ lastUpdate.again
    /\ \E p \in DeclaredPaths(runs[lastUpdate.r].fullText) :
          /\ EntriesOf(files, p) # {}
          /\ ArtifactNodes(lastUpdate.r, p) # {}

\* the paths of the entries of a files store, in store order, that are in S
PathsIn(fs, S) ==
    LET ps == [i \in 1..Len(fs) |-> fs[i].path]
    IN  SelectSeq(ps, LAMBDA q : q \in S)

PathSet(fs) == {fs[i].path : i \in 1..Len(fs)}

\* C11 (in every step): the entries that are in the files store before and
\* after the step are in the same order before and after it, and an entry the
\* step adds comes after them.
C11_StepKeepsTheOrder ==
    /\ PathsIn(files', PathSet(files)) = PathsIn(files, PathSet(files'))
    /\ \A i \in 1..Len(files') :
          files'[i].path \notin PathSet(files) =>
              \A j \in 1..Len(files') : files'[j].path \in PathSet(files) => j < i

\* C11: every mutation of the files store (stream upsert, handleFileUpdate,
\* handleFileCreate, handleFileDelete) keeps the relative order of the entries
\* it does not target, and an upsert of a path of the store keeps the entry at
\* its place.
C11_MutationsKeepTheOrder == [][C11_StepKeepsTheOrder]_vars

\* a store of two entries: the first was created and edited by the user, the
\* second was upserted by a stream
C11_Witness ==
    /\ Len(files) = 2
    /\ files[1].content = Typed
    /\ files[1].language = CreatedLanguage(files[1].path)
    /\ \E r \in 1..Len(runs) : files[2].path \in DeclaredPaths(runs[r].fullText)

\* the lists of siblings of a tree: the list itself and those below it
RECURSIVE SiblingLists(_)
SiblingLists(level) ==
    {level} \cup UNION {SiblingLists(level[i].children) : i \in 1..Len(level)}

\* the nodes of a tree
TreeNodes(level) == UNION {{l[i] : i \in 1..Len(l)} : l \in SiblingLists(level)}

\* C12, as stated: for every file of the store the tree holds a node of type
\* 'file' whose path is the path of that file.
C12_EveryFileHasItsNode ==
    \A i \in 1..Len(panelFiles) :
        \E n \in TreeNodes(fileTree) :
            n.type = "file" /\ n.path = panelFiles[i].path

\* C13: in the tree of every store, no two children of one parent, and no two
\* root nodes, have the same name.
C13_SiblingNamesDiffer ==
    \A l \in SiblingLists(fileTree) :
        \A i, j \in 1..Len(l) : l[i].name = l[j].name => i = j

\* the first parts of two files of the store are the same and the tree has one
\* root node for both
C13_Witness ==
    /\ Len(panelFiles) >= 2
    /\ Len(fileTree) = 1
    /\ Len(fileTree[1].children) >= 2
    /\ \A i \in 1..Len(panelFiles) :
          PathParts(panelFiles[i].path)[1] = fileTree[1].name

\* two paths collide when the parts of one begin the parts of the other
Collide(p, q) ==
    LET a == PathParts(p)
        b == PathParts(q)
    IN  \/ (Len(a) <= Len(b) /\ SubSeq(b, 1, Len(a)) = a)
        \/ (Len(b) <= Len(a) /\ SubSeq(a, 1, Len(b)) = b)

\* the orders a list of n things can be in
Orders(n) == {f \in [1..n -> 1..n] : \A i, j \in 1..n : f[i] = f[j] => i = j}

\* C14 (the order): in every list of siblings the directories precede the
\* files, and two neighbours of the same type are in ascending name order.
C14_LevelsAreSorted ==
    \A l \in SiblingLists(fileTree) :
        \A i \in 1..(Len(l) - 1) :
            IF l[i].type = l[i + 1].type
              THEN localeCompare(l[i].name, l[i + 1].name) < 0
            ELSE l[i].type = "directory" /\ l[i + 1].type = "file"

\* C14 (the input order): when no two paths of the store collide, the files
\* given in any other order build the same tree.
C14_InputOrderIsNoMatter ==
    (\A i, j \in 1..Len(panelFiles) :
        i # j => ~Collide(panelFiles[i].path, panelFiles[j].path))
    => \A f \in Orders(Len(panelFiles)) :
          buildFileTree([i \in 1..Len(panelFiles) |-> panelFiles[f[i]]]) = fileTree

\* C14: in every tree buildFileTree returns, at every level the directories
\* precede the files and each group is in ascending name order, and the tree
\* does not depend on the order of the files when their paths do not collide.
C14_SortedAtEveryLevel == C14_LevelsAreSorted /\ C14_InputOrderIsNoMatter

\* a store whose first file is the last root node, after a directory, and
\* whose last file is the first child of that directory, before a name that
\* differs from its own in case only
C14_Witness ==
    /\ Len(panelFiles) = 3
    /\ Len(fileTree) = 2
    /\ fileTree[1].type = "directory"
    /\ fileTree[2].type = "file"
    /\ fileTree[2].path = panelFiles[1].path
    /\ Len(fileTree[1].children) = 2
    /\ fileTree[1].children[1].path = panelFiles[3].path
    /\ fileTree[1].children[2].path = panelFiles[2].path
    /\ \A i, j \in 1..3 : i # j => ~Collide(panelFiles[i].path, panelFiles[j].path)

ToolCount(ns) == Cardinality({i \in 1..Len(ns) : ns[i].type = "tool"})

\* the edges from the Agent node of run r to a Tool node
ToolEdges(es, r) ==
    {i \in 1..Len(es) :
        es[i].source = ModelNodeId(runs[r].t) /\ es[i].target.kind = "tool"}

\* C15 (state part): no turn has more than one Agent-to-Tool edge, and a turn
\* that made no Tool node has none.
C15_AtMostOneToolEdge ==
    \A r \in 1..Len(runs) :
        /\ Cardinality(ToolEdges(edges, r)) <= 1
        /\ ~runs[r].toolNodeCreated => ToolEdges(edges, r) = {}

\* C15 (step part): an update of a turn adds one Tool node and one
\* Agent-to-Tool edge when it carries grounding metadata and the turn has made
\* no Tool node yet, and none otherwise; no other step adds a Tool node; a
\* turn that has made its Tool node stays so.
C15_ToolNodeOnlyAtFirstGrounding ==
    /\ \A r \in 1..Len(runs) : runs[r].toolNodeCreated => runs'[r].toolNodeCreated
    /\ IF lastUpdate'.r # 0 /\ Len(runs') = Len(runs)
         THEN LET r == lastUpdate'.r
                  due == IF lastUpdate'.g /\ ~runs[r].toolNodeCreated THEN 1 ELSE 0
              IN  /\ ToolCount(nodes') = ToolCount(nodes) + due
                  /\ Cardinality(ToolEdges(edges', r))
                        = Cardinality(ToolEdges(edges, r)) + due
       ELSE ToolCount(nodes') <= ToolCount(nodes)

\* C15: within one turn, however many updates carry grounding metadata, the
\* graph gains at most one Tool node and at most one Agent-to-Tool edge, both
\* at the first update that carries grounding metadata.
C15_OneToolNodePerTurn ==
    [](C15_AtMostOneToolEdge) /\ [][C15_ToolNodeOnlyAtFirstGrounding]_vars

\* a second update in a row carried grounding metadata and the turn has one
\* Tool node and one edge to it
C15_Witness ==
    /\ lastUpdate.again
    /\ lastUpdate.g
    /\ runs[lastUpdate.r].toolNodeCreated
    /\ ToolCount(nodes) = 1
    /\ Cardinality(ToolEdges(edges, lastUpdate.r)) = 1

\* the places in the node list of the Artifact nodes of run r
TurnArtifacts(r) ==
    {i \in 1..Len(nodes) :
        nodes[i].type = "file" /\ nodes[i].id.kind = "file" /\ nodes[i].id.t = runs[r].t}

\* C16, as stated: no two Artifact nodes of one turn have the same position
\* (x, y).
C16_ArtifactNodesDoNotOverlap ==
    \A r \in 1..Len(runs) : \A i, j \in TurnArtifacts(r) :
        (nodes[i].x = nodes[j].x /\ nodes[i].y = nodes[j].y) => i = j

\* C17, as stated: once the session of a turn is completed, failed or
\* cancelled, the edge made for the turn with animated = true (from its User
\* node to its Agent node) is no longer animated.
C17_EdgeStopsAtTheEnd ==
    \A r \in 1..Len(runs) :
        runs[r].pc \in {"completed", "failed", "cancelled"} =>
            \A i \in 1..Len(edges) :
                edges[i].id = EdgeId(UserNodeId(runs[r].t), ModelNodeId(runs[r].t))
                    => ~edges[i].animated

\* s begins t
Begins(s, t) == Len(s) <= Len(t) /\ SubSeq(t, 1, Len(s)) = s

\* C18 (state part): the text the last update delivered, which the message of
\* the turn and its Agent node carry, is the whole buffer of the session.
C18_DeliveredTextIsTheBuffer ==
    lastUpdate.r # 0 =>
        LET run == runs[lastUpdate.r]
        IN  /\ \A i \in 1..Len(messages) :
                  messages[i].id = run.modelMessageId => messages[i].text = run.fullText
            /\ \A i \in AgentNodes(lastUpdate.r) : nodes[i].fullContent = run.fullText

\* C18 (step part): the buffer of a session never shrinks: in every step it
\* begins the buffer after the step, and what an update adds to it is the
\* text of one chunk.
C18_BufferOnlyGrows ==
    \A r \in 1..Len(runs) :
        /\ Begins(runs[r].fullText, runs'[r].fullText)
        /\ \E text \in ChunkTexts : runs'[r].fullText = runs[r].fullText \o text

\* C18: within one session the buffer is append-only and the chunks are
\* applied in arrival order: every update delivers the concatenation of the
\* texts of the chunks received so far, so each delivered text begins the next.
C18_BufferIsAppendOnly ==
    [](C18_DeliveredTextIsTheBuffer) /\ [][C18_BufferOnlyGrows]_vars

\* a session whose buffer is three chunks long: a declaration that came in
\* three pieces and is complete
C18_Witness ==
    /\ lastUpdate.r # 0
    /\ runs[lastUpdate.r].fullText = <<OpenTag(PathA), Ch("x"), Ch("x"), CloseTag>>
    /\ Len(files) = 1
    /\ files[1].content = <<Ch("x"), Ch("x")>>

\* C19, as stated: in every reachable state the ids of the graph nodes are
\* pairwise distinct and the ids of the edges are pairwise distinct.
C19_IdsAreDistinct ==
    /\ \A i, j \in 1..Len(nodes) : nodes[i].id = nodes[j].id => i = j
    /\ \A i, j \in 1..Len(edges) : edges[i].id = edges[j].id => i = j

\* What the markers say a text holds, read left to right: outside a thought
\* <think> begins one, inside one the first </think> ends it.  The result is
\* the place of the <think> of the thought still open at the end of the text,
\* 0 when there is none.
RECURSIVE OpenThought(_, _, _)
OpenThought(text, k, openAt) ==
    IF k > Len(text) THEN openAt
    ELSE IF openAt = 0 /\ text[k] = ThinkOpen THEN OpenThought(text, k + 1, k)
    ELSE IF openAt # 0 /\ text[k] = ThinkClose THEN OpenThought(text, k + 1, 0)
    ELSE OpenThought(text, k + 1, openAt)

\* C20: for every content with a <think> that no </think> follows, the parts
\* end with one Thought part whose text is everything after that marker up to
\* the end of the content, nothing added, and every other part lies before the
\* marker.
C20_OpenThoughtIsTheLastPart ==
    LET openAt == OpenThought(content, 1, 0)
    IN  openAt # 0 =>
          /\ Len(parts) >= 1
          /\ parts[Len(parts)] = ThinkPart(SubSeq(content, openAt + 1, Len(content)), openAt)
          /\ \A i \in 1..(Len(parts) - 1) :
                parts[i].at + Len(parts[i].text) <= openAt

\* a closed thought, text, and a thought that is still open and has text
C20_Witness ==
    /\ OpenThought(content, 1, 0) # 0
    /\ Len(parts) = 3
    /\ parts[1].kind = "think"
    /\ parts[2].kind = "content"
    /\ parts[3].kind = "think"
    /\ parts[3].text # <<>>

\* the parts of a text that are closed: every part but the last, and the last
\* one too when it is a thought whose </think> is in the text
ClosedParts(text) ==
    LET ps == Markdown(text)
    IN  IF ps = <<>> THEN ps
        ELSE IF ps[Len(ps)].kind = "think" /\ OpenThought(text, 1, 0) = 0 THEN ps
        ELSE SubSeq(ps, 1, Len(ps) - 1)

\* C21 (first half): the parts of the content begin with the closed parts of
\* every prefix of the content, unchanged and in the same order.
C21_ClosedPartsStay ==
    \A n \in 0..Len(content) : Begins(ClosedParts(Prefix(content, n)), parts)

\* C21, as stated: for every prefix B of the content the parts of the content
\* reproduce the closed parts of B, and are at most one more than the parts
\* of B.
C21_AnyExtensionAddsAtMostOne ==
    /\ C21_ClosedPartsStay
    /\ \A n \in 0..Len(content) : Len(parts) <= Len(Markdown(Prefix(content, n))) + 1

\* C21, amended: for every prefix B of the content the parts of the content
\* reproduce the closed parts of B, and are as many as the parts of the prefix
\* that is one marker or character shorter, or one more.
C21_OneStepAddsAtMostOne ==
    /\ C21_ClosedPartsStay
    /\ content # <<>> =>
          LET before == Len(Markdown(Prefix(content, Len(content) - 1)))
          IN  before <= Len(parts) /\ Len(parts) <= before + 1

\* text, a closed thought and text again: the first two parts were closed in
\* the prefixes and the last one was added by the last character
C21_Witness ==
    /\ Len(parts) = 3
    /\ parts[1].kind = "content"
    /\ parts[2].kind = "think"
    /\ parts[2].text # <<>>
    /\ parts[3].kind = "content"
    /\ OpenThought(content, 1, 0) = 0

\* What the fences say a text holds, read left to right: outside a block a
\* fence with its word and newline opens one, inside one the first fence closes
\* it.  The result is the place of the fence of the block still open at the
\* end of the text, 0 when there is none.
RECURSIVE OpenFence(_, _, _)
OpenFence(text, k, openAt) ==
    IF k > Len(text) THEN openAt
    ELSE IF openAt = 0 /\ FenceOpensAt(text, k)
           THEN OpenFence(text, AfterWord(text, k + 1) + 1, k)
    ELSE IF openAt # 0 /\ text[k] = Fence THEN OpenFence(text, k + 1, 0)
    ELSE OpenFence(text, k + 1, openAt)

\* C22 (the open fence): when the text has an opening fence with no closing
\* fence after it, no Code block is at or after that fence, and the last block
\* is a Text block that holds the fence and everything after it.
C22_OpenFenceIsText ==
    LET openAt == OpenFence(prose, 1, 0)
    IN  openAt # 0 =>
          /\ \A i \in 1..Len(blocks) : blocks[i].kind = "code" => blocks[i].at < openAt
          /\ Len(blocks) >= 1
          /\ LET last == blocks[Len(blocks)]
             IN  /\ last.kind = "text"
                 /\ last.at <= openAt
                 /\ last.text = SubSeq(prose, last.at, Len(prose))

\* C22 (the closing fence): when the last thing of the text is the fence that
\* closes a block open until then, the last block is the Code block of that
\* block, with the text between the opening line and the closing fence.
C22_ClosedFenceIsCode ==
    (prose # <<>> /\ OpenFence(Prefix(prose, Len(prose) - 1), 1, 0) # 0
       /\ prose[Len(prose)] = Fence)
    => LET openAt == OpenFence(Prefix(prose, Len(prose) - 1), 1, 0)
       IN  /\ Len(blocks) >= 1
           /\ blocks[Len(blocks)].kind = "code"
           /\ blocks[Len(blocks)].at = openAt
           /\ blocks[Len(blocks)].text =
                 SubSeq(prose, AfterWord(prose, openAt + 1) + 1, Len(prose) - 1)

\* C22: for every text with an opening code fence and no closing fence after
\* it, ContentParser emits no Code block for the fence and the fence and its
\* content are inside a Text block; the Code block appears in the parse of the
\* text that has the closing fence.
C22_NoCodeBlockBeforeItsClosingFence == C22_OpenFenceIsText /\ C22_ClosedFenceIsCode

\* text, then a fence with a word and a newline and code after it, not closed
C22_Witness ==
    /\ OpenFence(prose, 1, 0) = 2
    /\ Len(prose) = 5
    /\ prose[3] = Ch("x")
    /\ Len(blocks) = 1
    /\ blocks[1].kind = "text"

\* C23 (the <file> half): when the text ends inside a <file> declaration, the
\* extractor emits the artifacts of the complete declarations and nothing for
\* the open one.
C23_DanglingFileIsNoArtifact ==
    Declared(buffer).openAt # 0 =>
        /\ Len(parsed) = Len(Declared(buffer).done)
        /\ \A k \in 1..Len(parsed) :
              parsed[k].content = Trimmed(buffer, Declared(buffer).done[k])

FileNameOf(path) ==
    LET at == {i \in 1..Len(path) : path[i] = "/"}
    IN  IF at = {} THEN path
        ELSE SubSeq(path, (CHOOSE i \in at : \A j \in at : j <= i) + 1, Len(path))

HasExtension(path) == \E i \in 1..Len(FileNameOf(path)) : FileNameOf(path)[i] = "."

\* the final extension of a path that has one, lowercased
ExtensionOf(path) ==
    LET name == FileNameOf(path)
        at == {i \in 1..Len(name) : name[i] = "."}
        last == CHOOSE i \in at : \A j \in at : j <= i
    IN  [k \in 1..(Len(name) - last) |-> LowerChar(name[last + k])]

\* the fixed table of the claim
TableLanguage(ext) ==
    CASE ext \in {<<"j", "s">>, <<"j", "s", "x">>, <<"t", "s">>, <<"t", "s", "x">>}
           -> LangJavascript
      [] ext = <<"h", "t", "m", "l">> -> LangHtml
      [] ext = <<"c", "s", "s">> -> LangCss
      [] ext = <<"j", "s", "o", "n">> -> LangJson
      [] ext = <<"p", "y">> -> LangPython
      [] OTHER -> LangText

\* C24: the language of every extracted artifact is the table's entry for the
\* lowercased final extension of its path, and 'text' for every other path,
\* the paths without an extension included.
C24_LanguageFollowsTheExtension ==
    \A k \in 1..Len(parsed) :
        parsed[k].language
          = IF HasExtension(parsed[k].path)
              THEN TableLanguage(ExtensionOf(parsed[k].path))
              ELSE LangText

\* C24 for the paths that have an extension
C24_WithExtension ==
    \A k \in 1..Len(parsed) :
        HasExtension(parsed[k].path) =>
            parsed[k].language = TableLanguage(ExtensionOf(parsed[k].path))

\* the characters a list of spans stands for: the text of a text span, and the
\* text of a code or bold span between its two delimiters
RECURSIVE Restored(_, _)
Restored(ss, i) ==
    IF i > Len(ss) THEN <<>>
    ELSE (CASE ss[i].kind = "code" -> <<Backtick>> \o ss[i].text \o <<Backtick>>
            [] ss[i].kind = "bold" -> <<"*", "*">> \o ss[i].text \o <<"*", "*">>
            [] OTHER -> ss[i].text)
           \o Restored(ss, i + 1)

CountOf(s, c) == Cardinality({i \in 1..Len(s) : s[i] = c})

SpansOfKind(kind) == {i \in 1..Len(spans) : spans[i].kind = kind}

\* C25: a delimiter without a partner on the line is rendered literally: a
\* line with a single backtick has no code span, a line without two pairs of
\* asterisks has no bold span, and the spans with their delimiters give back
\* every character of the line.
C25_UnmatchedDelimitersAreLiteral ==
    /\ CountOf(line, Backtick) < 2 => SpansOfKind("code") = {}
    /\ CountOf(line, "*") < 4 => SpansOfKind("bold") = {}
    /\ Restored(spans, 1) = line

\* C25 for the spans that have a text: they are the matches of the two
\* patterns, and their delimiters are characters of the line
C25_FilledSpansAreDelimited ==
    \A i \in 1..Len(spans) :
        spans[i].kind \in {"code", "bold"} /\ spans[i].text # <<>> =>
            \E at \in 1..Len(line) :
                LET d == IF spans[i].kind = "code" THEN <<Backtick>> ELSE <<"*", "*">>
                    whole == d \o spans[i].text \o d
                IN  /\ at + Len(whole) - 1 <= Len(line)
                    /\ SubSeq(line, at, at + Len(whole) - 1) = whole

\* C26: whenever a stream started by handleRun is in flight and has not been
\* aborted, isGenerating is true and abortControllerRef holds the controller of
\* that stream.
C26_LiveStreamCanBeStopped ==
    \A r \in Streaming :
        ~runs[r].aborted => isGenerating /\ abortControllerRef = r

\* the places in the message list of the model message created for run r
TurnMessages(r) == {i \in 1..Len(messages) : messages[i].id = runs[r].modelMessageId}

\* C28: once the session of a turn is completed, failed or cancelled, the
\* model message created for that turn does not have isLoading = true.
C28_TerminalTurnIsNotLoading ==
    \A r \in 1..Len(runs) :
        runs[r].pc \in {"completed", "failed", "cancelled"} =>
            \A i \in TurnMessages(r) : ~messages[i].isLoading

\* the user changed the content of path p after the last update of run r, whose
\* text declares p: the store has what the user typed
UpdateInEffect(r, p) ==
    /\ p \in DeclaredPaths(runs[r].fullText)
    /\ \E i \in EntriesOf(files, p) : files[i].content = Typed

\* the user deleted path p after the last update of run r, whose text declares
\* p: the store has no entry for p although it was not cleared (the message of
\* the turn is still in the list)
DeleteInEffect(r, p) ==
    /\ p \in DeclaredPaths(runs[r].fullText)
    /\ EntriesOf(files, p) = {}
    /\ TurnMessages(r) # {}

\* the step is an update of run r whose text completes no declaration of p
UpdateWithoutDeclaration(r, p) ==
    /\ lastUpdate'.r = r
    /\ Len(runs') = Len(runs)
    /\ Cardinality(DeclarationsOf(runs'[r].fullText, p))
          = Cardinality(DeclarationsOf(runs[r].fullText, p))

C29_Step ==
    \A r \in 1..Len(runs), p \in Paths :
        UpdateWithoutDeclaration(r, p) =>
            /\ UpdateInEffect(r, p) =>
                  \E i \in EntriesOf(files', p) : files'[i].content = Typed
            /\ DeleteInEffect(r, p) => EntriesOf(files', p) = {}

\* C29: what the user did to a path of the files store during a session (a
\* new content, a deletion) is still in effect after a later chunk of that
\* session, unless the text that arrived after it completes a declaration of
\* that path.
C29_UserActionsOutlastChunks == [][C29_Step]_vars

\* C30: when a session has completed and one of its chunks carried grounding
\* metadata, the turn has an Agent-to-Tool edge and the Tool node it leads to
\* (while the graph still has the Agent node of the turn).
C30_GroundedTurnHasItsToolNode ==
    \A r \in 1..Len(runs) :
        /\ runs[r].pc = "completed"
        /\ ~runs[r].aborted
        /\ runs[r].foundMetadata
        /\ AgentNodes(r) # {}
        => \E e \in ToolEdges(edges, r) :
              \E i \in 1..Len(nodes) :
                  nodes[i].id = edges[e].target /\ nodes[i].type = "tool"

Idle == ~isGenerating /\ abortControllerRef = 0

\* C27 (step part): the step that ends the session of a run, completed, failed
\* or cancelled, leaves isGenerating false and abortControllerRef null.
C27_EndOfSessionIsIdle ==
    \A r \in 1..Len(runs) :
        runs[r].pc = "streaming" /\ runs'[r].pc # "streaming" => Idle'

\* C27: with a stream source that eventually completes, fails, or delivers one
\* more chunk after an abort, the session of every run started by handleRun
\* comes to an end, and isGenerating becomes false and abortControllerRef null,
\* whether the session completed, failed or was cancelled.
C27_EveryRunReturnsToIdle ==
    /\ \A r \in 1..MaxTurns :
          (r <= Len(runs)) ~> (r <= Len(runs) /\ runs[r].pc # "streaming")
    /\ isGenerating ~> Idle
    /\ [][C27_EndOfSessionIsIdle]_vars

\* three turns have ended, one completed, one failed and one cancelled, and
\* the application is idle
C27_Witness ==
    /\ Idle
    /\ \E a, b, c \in 1..Len(runs) :
          /\ runs[a].pc = "completed"
          /\ runs[b].pc = "failed"
          /\ runs[c].pc = "cancelled"

====
